---- MODULE Spec2Model ----
(***************************************************************************)
(* The Auracle Telegram bot: the tick engine of src/index.js (lines        *)
(* 691-902), the state file it reads and writes, and the scheduler loop    *)
(* and the tick_now command that start ticks.                              *)
(*                                                                         *)
(* A tick is an async function.  Its await points split it into steps:     *)
(*   TickStart     loadState, then the list scrape resolves                *)
(*   TickScrape    the detail scrapes of the watch-set resolve             *)
(*   TickScrapeThrows  one detail scrape rejects: the catch of line 899    *)
(*   TickSeed      first-run seeding and saveState (lines 743-771)         *)
(*   TickReconcile counters, transitions, sends, cleanup, saveState        *)
(* Steps of other handlers may run between the steps of a tick.            *)
(*                                                                         *)
(* Spec is the scheduler loop alone with Telegram and the disk working.    *)
(* SpecCmd adds the ticks of tick_now, SpecCtl the commands set_target,    *)
(* reseed_off and announce_open_now, SpecSend the deliveries Telegram      *)
(* refuses, SpecFault the writes of the state file that throw, and         *)
(* SpecWinner applies mapWinnerToLabel to raw winners and option lists.    *)
(* SpecOptions applies the two option normalisers to scraped rows,         *)
(* SpecInfer is the tick that infers a closure from absence (lines 1494 to *)
(* 1637), and SpecRunning the tick of src/unnamed/part_001 that is guarded *)
(* by a running flag.  SpecInterval computes the poll interval from the     *)
(* environment.                                                            *)
(*                                                                         *)
(* Display-only strings (title, category, endsIn, winner text) are not     *)
(* part of the model; option lists, urls, flags and counters are.          *)
(***************************************************************************)
EXTENDS Integers, Sequences, FiniteSets, TLC

\* Largest missingCount the model lets a record reach.
MaxMissing == 1

\* const MAX_RETIRED = 2000;
MAX_RETIRED == 2000

\* The two callers of tick(): loopTick and the tick_now command.
Procs == {"loop", "cmd"}

\* TELEGRAM_CHAT_ID, the configured default destination.
TELEGRAM_CHAT_ID == "env"

\* JavaScript null / undefined for an optional value; Some(v) is a value.
Null == <<>>
Some(v) == <<v>>

(***************************************************************************)
(* Option labels and their normalisation.                                  *)
(***************************************************************************)

\* s.toUpperCase() on the labels of the model.
ToUpperCase(s) ==
  CASE s = "Home" -> "HOME"
    [] s = "Away" -> "AWAY"
    [] s = "Draw" -> "DRAW"
    [] s = "CURRENT Home" -> "CURRENT HOME"
    [] s = "Pool" -> "POOL"
    [] OTHER -> s

\* label.replace(/^CURRENT\s*[-]?\s*/i, '').trim()
StripCurrent(s) ==
  CASE s = "CURRENT Home" -> "Home"
    [] s = "CURRENT HOME" -> "HOME"
    [] OTHER -> s

\* banned.some(b => s.toUpperCase().includes(b)), on the labels of the model
IsBanned(s) == ToUpperCase(s) \in {"PROBABILITY", "CHART", "POOL", "SPORTS", "WINS", "IMPLIED"}

cleanLabel(label) ==
  IF label = "" THEN ""
  ELSE LET s == StripCurrent(label)
       IN IF IsBanned(s) THEN "" ELSE s

RECURSIVE UniqueFrom(_, _, _, _)
UniqueFrom(options, i, out, seen) ==
  IF i > Len(options) \/ Len(out) >= 3 THEN out
  ELSE LET o   == options[i]
           lbl == cleanLabel(o.label)
           key == ToUpperCase(lbl)
       IN IF lbl = "" \/ key \in seen
            THEN UniqueFrom(options, i + 1, out, seen)
            ELSE UniqueFrom(options, i + 1,
                            Append(out, [label |-> lbl, pct |-> o.pct]),
                            seen \cup {key})

\* dedupe and keep up to 3 options
uniqueOptions(options) == UniqueFrom(options, 1, <<>>, {})

\* Option lists a detail page yields (already normalised by the scraper).
DetailA == << [label |-> "Home", pct |-> 55], [label |-> "Away", pct |-> 45] >>
DetailB == << [label |-> "Home", pct |-> 60], [label |-> "Away", pct |-> 40] >>

\* Option list of a list card: the card scraper strips CURRENT and
\* duplicates but keeps rows such as "Pool".
CardC == << [label |-> "Pool", pct |-> 5], [label |-> "HOME", pct |-> 70],
            [label |-> "Away", pct |-> 30] >>

(***************************************************************************)
(* The site the bot polls: the markets that exist on it and what its pages *)
(* can show.  hot tells whether its cards carry "#n HOT" badges (the       *)
(* trending section); crowd is the number of further markets, which the    *)
(* model counts but does not follow one by one.                            *)
(***************************************************************************)
Statuses == {"open", "closed", "resolved"}

Sites ==
  { [ids |-> {1, 2}, hot |-> FALSE, statuses |-> Statuses, cardOptions |-> {<<>>},
     detailOptions |-> {<<>>}, urls |-> {"u"}, crowd |-> 0],
    [ids |-> {1}, hot |-> TRUE, statuses |-> Statuses, cardOptions |-> {<<>>, CardC},
     detailOptions |-> {<<>>, DetailA, DetailB}, urls |-> {"u"}, crowd |-> 0],
    [ids |-> {1}, hot |-> TRUE, statuses |-> Statuses, cardOptions |-> {<<>>},
     detailOptions |-> {<<>>}, urls |-> {"u", "v"}, crowd |-> 0],
    [ids |-> {1}, hot |-> TRUE, statuses |-> Statuses, cardOptions |-> {<<>>},
     detailOptions |-> {<<>>}, urls |-> {"u"}, crowd |-> MAX_RETIRED],
    [ids |-> {1}, hot |-> FALSE, statuses |-> {"open", "resolved"}, cardOptions |-> {<<>>},
     detailOptions |-> {<<>>}, urls |-> {"u"}, crowd |-> 0] }

\* The site of the runs in which ticks and commands overlap.
CmdSites == { x \in Sites : x.statuses # Statuses }

VARIABLES
  site,      \* the site being polled
  file,      \* the contents of state.json
  pc,        \* pc[p]: where the tick started by p stands
  st,        \* st[p]: the tick's local `state` object
  lists,     \* lists[p]: the tick's active / trending cards
  results,   \* results[p]: the tick's results array
  outbox,    \* the calls of send() made by the step just taken
  sent,      \* sent[id][kind]: how often send() was called for (id, kind)
  closedMsg, \* closedMsg[id]: options of the closed notification of id
  prevTick,  \* prevTick[id]: how the previous tick saw id
  timers,    \* the number of pending setTimeout(loopTick, ...) callbacks
  reply,     \* the ctx.reply() of the command step just taken
  lost,      \* the (id, kind) of the sends Telegram refused so far
  args,      \* the arguments of the pure function being applied
  ret,       \* what it returned
  TICK_RUNNING \* the running flag of the tick of src/unnamed/part_001

vars == <<site, file, pc, st, lists, results, outbox, sent, closedMsg, prevTick,
          timers, reply, lost, args, ret, TICK_RUNNING>>

\* { markets: {}, seeded: false }
EmptyState == [markets |-> <<>>, seeded |-> FALSE, targetChatId |-> Null, untracked |-> 0]

NoLists == [active |-> <<>>, trending |-> <<>>]
NoResults == [snaps |-> <<>>, others |-> 0, fetched |-> {}]

(***************************************************************************)
(* Helpers on the state object and the list cards.                         *)
(***************************************************************************)
activeIds(l)   == DOMAIN l.active
trendingIds(l) == DOMAIN l.trending
knownIds(state) == DOMAIN state.markets

\* state.markets[id]?.retired
isRetired(state, id) == id \in knownIds(state) /\ state.markets[id].retired

\* the watch-set without the removal of the retired ids
toWatch_keepRetired(state, l) ==
  activeIds(l) \cup trendingIds(l) \cup knownIds(state)

\* toWatch: active, trending and known ids, minus the retired ones
toWatch(state, l) ==
  { id \in activeIds(l) \cup trendingIds(l) \cup knownIds(state) :
      ~isRetired(state, id) }

\* activeById.get(id)
cardActive(l, id) == IF id \in activeIds(l) THEN Some(l.active[id]) ELSE Null

\* activeById.get(id) || trendingById.get(id)
cardAny(l, id) ==
  IF id \in activeIds(l) THEN Some(l.active[id])
  ELSE IF id \in trendingIds(l) THEN Some(l.trending[id])
  ELSE Null

\* card?.options, [] when there is no card
cardOptions(card) == IF card = Null THEN <<>> ELSE card[1].options

\* prev.lastSeen?.options, [] when there is none
lastSeenOptions(rec) == IF rec.lastSeen = Null THEN <<>> ELSE rec.lastSeen[1].options

\* next.closedSnapshot?.options, [] when there is none
snapshotOptions(rec) ==
  IF rec.closedSnapshot = Null THEN <<>> ELSE rec.closedSnapshot[1].options

\* getTargetChatId(): loadState().targetChatId || TELEGRAM_CHAT_ID
getTargetChatId == IF file.targetChatId = Null THEN TELEGRAM_CHAT_ID ELSE file.targetChatId[1]

\* "If open, enrich from card": the card's options replace the detail's
\* when the card has at least two.
enrich(detail, l) ==
  LET card == cardAny(l, detail.id)
  IN IF detail.status = "open" /\ card # Null /\ Len(cardOptions(card)) >= 2
       THEN [detail EXCEPT !.options = uniqueOptions(cardOptions(card))]
       ELSE detail

(***************************************************************************)
(* First-run seeding (lines 743-771).                                      *)
(***************************************************************************)
seedRecord(m, l) ==
  LET card == cardAny(l, m.id)
  IN [ announcedOpen     |-> m.status = "open" /\ m.id \in activeIds(l),
       announcedClosed   |-> m.status = "closed",
       announcedResolved |-> m.status = "resolved",
       lastStatus        |-> m.status,
       url               |-> m.url,
       missingCount      |-> 0,
       wasTrending       |-> m.id \in trendingIds(l),
       retired           |-> m.status = "resolved",
       lastSeen          |-> Some([options |->
                               uniqueOptions(IF Len(cardOptions(card)) > 0
                                               THEN cardOptions(card)
                                               ELSE m.options)]),
       closedSnapshot    |-> IF m.status = "closed"
                               THEN Some([options |-> uniqueOptions(m.options)])
                               ELSE Null ]

seedState(state, l, res) ==
  [ state EXCEPT
      !.markets = [ id \in knownIds(state) \cup DOMAIN res.snaps |->
                      IF id \in DOMAIN res.snaps THEN seedRecord(res.snaps[id], l)
                      ELSE state.markets[id] ],
      !.untracked = IF res.others > 0 THEN res.others ELSE @,
      !.seeded = TRUE ]

(***************************************************************************)
(* Missing counters (lines 773-777).                                       *)
(***************************************************************************)
updateMissing(state, l) ==
  [ id \in knownIds(state) |->
      [ state.markets[id] EXCEPT !.missingCount =
          IF id \in activeIds(l) \/ id \in trendingIds(l) THEN 0 ELSE @ + 1 ] ]

(***************************************************************************)
(* Transitions and announcements of one result m (lines 780-886).          *)
(***************************************************************************)
\* the record a market without one starts from
defaultPrev(m) ==
  [ announcedOpen |-> FALSE, announcedClosed |-> FALSE, announcedResolved |-> FALSE,
    lastStatus |-> "unknown", url |-> m.url, missingCount |-> 0,
    lastSeen |-> Null, closedSnapshot |-> Null, wasTrending |-> FALSE,
    retired |-> FALSE ]

\* update lastSeen while open
nextLastSeen(prev, m, l) ==
  IF m.status = "open"
    THEN LET card     == cardAny(l, m.id)
             seenOpts == IF Len(cardOptions(card)) > 0 THEN cardOptions(card) ELSE m.options
         IN Some([options |-> uniqueOptions(IF Len(seenOpts) > 0 THEN seenOpts
                                            ELSE lastSeenOptions(prev))])
    ELSE prev.lastSeen

\* no snapshot taken by the transitions
nextClosedSnapshot_never(prev, m) == prev.closedSnapshot

\* the snapshot taken again on every closed observation
nextClosedSnapshot_recapture(prev, m) ==
  IF m.status = "closed"
    THEN Some([options |-> uniqueOptions(IF Len(lastSeenOptions(prev)) > 0
                                           THEN lastSeenOptions(prev)
                                           ELSE m.options)])
    ELSE prev.closedSnapshot

\* the snapshot taken from the closed page, lastSeen ignored
nextClosedSnapshot_ownOptions(prev, m) ==
  IF m.status = "closed" /\ ~prev.announcedClosed /\ prev.closedSnapshot = Null
    THEN Some([options |-> uniqueOptions(m.options)])
    ELSE prev.closedSnapshot

\* capture snapshot on first closed detect
nextClosedSnapshot(prev, m) ==
  IF m.status = "closed" /\ ~prev.announcedClosed /\ prev.closedSnapshot = Null
    THEN Some([options |-> uniqueOptions(IF Len(lastSeenOptions(prev)) > 0
                                           THEN lastSeenOptions(prev)
                                           ELSE m.options)])
    ELSE prev.closedSnapshot

\* the open announcement without the test of the active list
announceOpen_anyList(prev, m, l) ==
  m.status = "open" /\ ~prev.announcedOpen

\* announce new open (only if in Active)
announceOpen(prev, m, l) ==
  m.status = "open" /\ m.id \in activeIds(l) /\ ~prev.announcedOpen

\* the closed announcement without the test of the flag
announceClosed_unguarded(prev, m) ==
  m.status = "closed" /\ prev.lastStatus # "closed"

\* announce closed
announceClosed(prev, m) ==
  m.status = "closed" /\ ~prev.announcedClosed /\ prev.lastStatus # "closed"

\* announce resolved and retire
announceResolved(prev, m) ==
  m.status = "resolved" /\ ~prev.announcedResolved

\* trending announced on every tick the id is in the trending list
announceTrending_level(prev, m, l) == m.id \in trendingIds(l)

\* trending entry
announceTrending(prev, m, l) ==
  m.id \in trendingIds(l) /\ ~prev.wasTrending

\* opts of the open notification
openOptions(prev, m, l) ==
  LET card == cardActive(l, m.id)
  IN uniqueOptions(IF Len(cardOptions(card)) > 0 THEN cardOptions(card)
                   ELSE IF Len(lastSeenOptions(prev)) > 0 THEN lastSeenOptions(prev)
                   ELSE m.options)

\* the final options taken from lastSeen, the frozen snapshot ignored
finalOptions_unfrozen(prev, m, snapshot) ==
  uniqueOptions(IF Len(lastSeenOptions(prev)) > 0 THEN lastSeenOptions(prev)
                ELSE m.options)

\* closedOptions / finalOptions, given the closedSnapshot of next
finalOptions(prev, m, snapshot) ==
  IF snapshot # Null /\ Len(snapshot[1].options) > 0
    THEN snapshot[1].options
    ELSE uniqueOptions(IF Len(lastSeenOptions(prev)) > 0 THEN lastSeenOptions(prev)
                       ELSE m.options)

\* opts of the trending notification
trendingOptions(prev, m, l) ==
  LET card == cardAny(l, m.id)
  IN uniqueOptions(IF Len(cardOptions(card)) > 0 THEN cardOptions(card)
                   ELSE IF Len(lastSeenOptions(prev)) > 0 THEN lastSeenOptions(prev)
                   ELSE m.options)

\* next with announcedClosed left as it was
nextRecord_closedUnflagged(prev, m, l) ==
  [ prev EXCEPT
      !.url               = m.url,
      !.lastSeen          = nextLastSeen(prev, m, l),
      !.closedSnapshot    = nextClosedSnapshot(prev, m),
      !.announcedOpen     = @ \/ announceOpen(prev, m, l),
      !.announcedResolved = @ \/ announceResolved(prev, m),
      !.retired           = @ \/ announceResolved(prev, m),
      !.wasTrending       = m.id \in trendingIds(l),
      !.lastStatus        = m.status ]

\* next, as stored in state.markets[m.id]
nextRecord(prev, m, l) ==
  [ prev EXCEPT
      !.url               = m.url,
      !.lastSeen          = nextLastSeen(prev, m, l),
      !.closedSnapshot    = nextClosedSnapshot(prev, m),
      !.announcedOpen     = @ \/ announceOpen(prev, m, l),
      !.announcedClosed   = @ \/ announceClosed(prev, m),
      !.announcedResolved = @ \/ announceResolved(prev, m),
      !.retired           = @ \/ announceResolved(prev, m),
      !.wasTrending       = m.id \in trendingIds(l),
      !.lastStatus        = m.status ]

\* the calls of send() the transitions of m make
sendsOf(prev, m, l, chat) ==
  LET snapshot == nextClosedSnapshot(prev, m)
  IN (IF announceOpen(prev, m, l)
        THEN {[id |-> m.id, kind |-> "open", options |-> openOptions(prev, m, l), chat |-> chat, delivered |-> TRUE]}
        ELSE {})
     \cup
     (IF announceClosed(prev, m)
        THEN {[id |-> m.id, kind |-> "closed", options |-> finalOptions(prev, m, snapshot), chat |-> chat, delivered |-> TRUE]}
        ELSE {})
     \cup
     (IF announceResolved(prev, m)
        THEN {[id |-> m.id, kind |-> "resolved", options |-> finalOptions(prev, m, snapshot), chat |-> chat, delivered |-> TRUE]}
        ELSE {})
     \cup
     (IF announceTrending(prev, m, l)
        THEN {[id |-> m.id, kind |-> "trending", options |-> trendingOptions(prev, m, l), chat |-> chat, delivered |-> TRUE]}
        ELSE {})

\* prev = state.markets[m.id] || { ...defaults }, after the counter update
prevOf(state, l, m) ==
  IF m.id \in knownIds(state) THEN updateMissing(state, l)[m.id] ELSE defaultPrev(m)

\* the transitions loop keeping only the records of the results
reconciledMarkets_dropSkipped(state, l, res) ==
  [ id \in DOMAIN res.snaps |->
      nextRecord(prevOf(state, l, res.snaps[id]), res.snaps[id], l) ]

\* state.markets after the transitions loop; the iterations touch distinct
\* keys, so the loop is a map over the results
reconciledMarkets(state, l, res) ==
  [ id \in knownIds(state) \cup DOMAIN res.snaps |->
      IF id \in DOMAIN res.snaps
        THEN nextRecord(prevOf(state, l, res.snaps[id]), res.snaps[id], l)
        ELSE updateMissing(state, l)[id] ]

\* the retired records deleted whatever the size of the state
cleanup_always(markets, untracked) ==
  [ id \in { i \in DOMAIN markets : ~markets[i].retired } |-> markets[id] ]

\* Cleanup retired if state grows too big
cleanup(markets, untracked) ==
  IF Cardinality(DOMAIN markets) + untracked > MAX_RETIRED
    THEN [ id \in { i \in DOMAIN markets : ~markets[i].retired } |-> markets[id] ]
    ELSE markets

reconciledState(state, l, res) ==
  LET untracked == IF res.others > 0 THEN res.others ELSE state.untracked
  IN [ state EXCEPT
         !.markets = cleanup(reconciledMarkets(state, l, res), untracked),
         !.untracked = untracked ]

allSends(state, l, res, chat) ==
  UNION { sendsOf(prevOf(state, l, res.snaps[id]), res.snaps[id], l, chat) :
            id \in DOMAIN res.snaps }

(***************************************************************************)
(* The steps of a tick.                                                    *)
(***************************************************************************)
\* the lifecycle notifications, and all the notifications
Kinds == {"open", "closed", "resolved"}
AllKinds == Kinds \cup {"trending"}

\* What a list card and a detail page of the site can carry.
Cards == [url : site.urls, options : site.cardOptions]
Details == [status : site.statuses, url : site.urls, options : site.detailOptions]

\* The list scraper keys its entries by id and puts each entry in one
\* section: the two sections are disjoint.
ListResults ==
  UNION { UNION { [active : [A -> Cards], trending : [T -> Cards]] :
                    T \in SUBSET (IF site.hot THEN site.ids \ A ELSE {}) } :
          A \in SUBSET site.ids }

\* a record at the cap of the counter has to be on the list this tick
WithinMissingBound(state, l) ==
  \A id \in knownIds(state) :
    state.markets[id].missingCount < MaxMissing
      \/ id \in activeIds(l) \cup trendingIds(l)

\* the timer armed only after a tick that did not fail
rearm_unlessFailed(p, n, failed) == IF p = "loop" /\ ~failed THEN n + 1 ELSE n

\* loopTick: finally { setTimeout(loopTick, intervalSec * 1000); }, run
\* whether tick() failed or not; a tick of tick_now arms nothing
rearm(p, n, failed) == IF p = "loop" THEN n + 1 ELSE n

\* tick() returns, to loopTick or to the tick_now handler; tick() has caught
\* whatever was thrown, so tick_now goes on to reply 'Tick finished.'
Return(p, failed) ==
  /\ pc' = [pc EXCEPT ![p] = "idle"]
  /\ st' = [st EXCEPT ![p] = EmptyState]
  /\ lists' = [lists EXCEPT ![p] = NoLists]
  /\ results' = [results EXCEPT ![p] = NoResults]
  /\ timers' = rearm(p, timers, failed)
  /\ reply' = IF p = "cmd" THEN "Tick finished." ELSE "none"
  /\ UNCHANGED <<args, ret, TICK_RUNNING>>

Finish(p) == Return(p, FALSE)

\* const state = loadState(); const { trending, active } = await fetch...
TickStart(p) ==
  /\ pc[p] = "idle"
  /\ p = "loop" => timers > 0
  /\ timers' = IF p = "loop" THEN timers - 1 ELSE timers
  /\ reply' = IF p = "cmd" THEN "Tick started" ELSE "none"
  /\ \E l \in ListResults :
       /\ WithinMissingBound(file, l)
       /\ lists' = [lists EXCEPT ![p] = l]
  /\ st' = [st EXCEPT ![p] = file]
  /\ pc' = [pc EXCEPT ![p] = "listed"]
  /\ outbox' = {}
  /\ UNCHANGED <<site, file, results, sent, closedMsg, prevTick, lost, args, ret, TICK_RUNNING>>

\* for (const id of toWatch) { detail = await scrapeMarketDetail(url); ... }
\* with every scrape resolving: to null / no id (the market is skipped), or
\* to a snapshot.  The page scraped for id is the page of id, so the id the
\* scraper reads from its address is id.  others is the number of snapshots
\* obtained for the further markets of the site.
TickScrape(p) ==
  /\ pc[p] = "listed"
  /\ LET W == toWatch(st[p], lists[p])
     IN \E R \in SUBSET W :
          \E d \in [R -> Details] :
            \E others \in {0, site.crowd} :
              results' = [results EXCEPT ![p] =
                [ snaps |-> [ id \in R |->
                    enrich([id |-> id, status |-> d[id].status, url |-> d[id].url,
                            options |-> d[id].options], lists[p]) ],
                  others |-> others,
                  fetched |-> W ]]
  /\ pc' = [pc EXCEPT ![p] = "scraped"]
  /\ outbox' = {}
  /\ UNCHANGED <<site, file, st, lists, sent, closedMsg, prevTick,
                 timers, reply, lost, args, ret, TICK_RUNNING>>

\* the catch saving the state the tick had loaded, counters updated
TickScrapeThrows_saving(p) ==
  /\ pc[p] = "listed"
  /\ toWatch(st[p], lists[p]) # {} \/ site.crowd > 0
  /\ Return(p, TRUE)
  /\ outbox' = {}
  /\ prevTick' = [id \in site.ids |-> "none"]
  /\ file' = [st[p] EXCEPT !.markets = updateMissing(st[p], lists[p])]
  /\ UNCHANGED <<site, sent, closedMsg, lost>>

\* a scrape rejects (page.goto times out): control leaves the loop for
\* catch (e) { console.error('tick error:', e.message); }
TickScrapeThrows(p) ==
  /\ pc[p] = "listed"
  /\ toWatch(st[p], lists[p]) # {} \/ site.crowd > 0
  /\ Return(p, TRUE)
  /\ outbox' = {}
  /\ prevTick' = [id \in site.ids |-> "none"]
  /\ UNCHANGED <<site, file, sent, closedMsg, lost>>

\* no seeding branch: the first results go through the transitions
seedNow_never(state, res) == FALSE

\* the seeding test with the seeded flag read the wrong way round
seedNow_inverted(state, res) == state.seeded /\ (DOMAIN res.snaps # {} \/ res.others > 0)

\* if (!state.seeded && results.length)
seedNow(state, res) == ~state.seeded /\ (DOMAIN res.snaps # {} \/ res.others > 0)

seenAs(l, res) ==
  [ id \in site.ids |->
      IF id \notin DOMAIN res.snaps THEN "none"
      ELSE IF id \in trendingIds(l) THEN "trending" ELSE "plain" ]

TickSeed(p) ==
  /\ pc[p] = "scraped"
  /\ seedNow(st[p], results[p])
  /\ file' = seedState(st[p], lists[p], results[p])
  /\ Finish(p)
  /\ outbox' = {}
  /\ prevTick' = seenAs(lists[p], results[p])
  /\ UNCHANGED <<site, sent, closedMsg, lost>>

bump(n) == IF n < 2 THEN n + 1 ELSE 2

\* send(): sendMessage resolves, or rejects and the catch of send() logs it
send(s, refused) == [s EXCEPT !.delivered = (s \notin refused)]

\* the calls of send() of the transitions loop, those of `refused` failing
Sends(p, refused) ==
  LET out == allSends(st[p], lists[p], results[p], getTargetChatId)
  IN /\ outbox' = { send(s, refused) : s \in out }
     /\ sent' = [ id \in site.ids |-> [ k \in AllKinds |->
                    IF \E s \in out : s.id = id /\ s.kind = k
                      THEN bump(sent[id][k]) ELSE sent[id][k] ] ]
     /\ closedMsg' = [ id \in site.ids |->
                    IF \E s \in out : s.id = id /\ s.kind = "closed"
                      THEN Some((CHOOSE s \in out : s.id = id /\ s.kind = "closed").options)
                      ELSE closedMsg[id] ]
     /\ lost' = lost \cup { <<s.id, s.kind>> : s \in refused }

TickReconcile(p) ==
  /\ pc[p] = "scraped"
  /\ ~seedNow(st[p], results[p])
  /\ Sends(p, {})
  /\ file' = reconciledState(st[p], lists[p], results[p])
  /\ Finish(p)
  /\ prevTick' = seenAs(lists[p], results[p])
  /\ UNCHANGED site

\* the tick of TickReconcile with sendMessage rejecting for some of its sends
TickUndelivered(p) ==
  /\ pc[p] = "scraped"
  /\ ~seedNow(st[p], results[p])
  /\ \E refused \in SUBSET allSends(st[p], lists[p], results[p], getTargetChatId) :
       /\ refused # {}
       /\ Sends(p, refused)
  /\ file' = reconciledState(st[p], lists[p], results[p])
  /\ Finish(p)
  /\ prevTick' = seenAs(lists[p], results[p])
  /\ UNCHANGED site

\* saveState(state) throws (writeFileSync fails), in the seeding branch or
\* after the transitions loop, whose sends have been made: control goes to
\* catch (e) { console.error('tick error:', e.message); }
TickWriteFails(p) ==
  /\ pc[p] = "scraped"
  /\ IF seedNow(st[p], results[p])
       THEN outbox' = {} /\ UNCHANGED <<sent, closedMsg, lost>>
       ELSE \E refused \in SUBSET allSends(st[p], lists[p], results[p], getTargetChatId) :
              Sends(p, refused)
  /\ Return(p, TRUE)
  /\ prevTick' = [id \in site.ids |-> "none"]
  /\ UNCHANGED <<site, file>>

\* the process after boot: the state file as created, no tick in progress,
\* the first call of loopTick pending
Booted ==
  /\ file = EmptyState
  /\ pc = [p \in Procs |-> "idle"]
  /\ st = [p \in Procs |-> EmptyState]
  /\ lists = [p \in Procs |-> NoLists]
  /\ results = [p \in Procs |-> NoResults]
  /\ outbox = {}
  /\ sent = [id \in site.ids |-> [k \in AllKinds |-> 0]]
  /\ closedMsg = [id \in site.ids |-> Null]
  /\ prevTick = [id \in site.ids |-> "none"]
  /\ timers = 1
  /\ reply = "none"
  /\ lost = {}
  /\ TICK_RUNNING = FALSE

Init ==
  /\ site \in Sites
  /\ Booted
  /\ args = Null
  /\ ret = Null

\* loopTick: one tick after the other
Next ==
  \/ TickStart("loop")
  \/ TickScrape("loop")
  \/ TickScrapeThrows("loop")
  \/ TickSeed("loop")
  \/ TickReconcile("loop")

Spec == Init /\ [][Next]_vars

\* loopTick and tick_now: a tick_now tick may start while another tick
\* awaits a scrape, and the other way round
NextCmd ==
  \E p \in Procs :
    \/ TickStart(p)
    \/ TickScrape(p)
    \/ TickScrapeThrows(p)
    \/ TickSeed(p)
    \/ TickReconcile(p)

InitCmd == Init /\ site \in CmdSites

SpecCmd == InitCmd /\ [][NextCmd]_vars

(***************************************************************************)
(* Telegram refusing a message, and the disk refusing a write.             *)
(***************************************************************************)
\* The sites of the runs with refused messages: the crowded one and the
\* smallest one.
FaultSites == { x \in Sites : x.crowd > 0 \/ x.statuses # Statuses }

InitSend == Init /\ site \in FaultSites

\* loopTick, with sendMessage rejecting now and then
NextSend ==
  \/ Next
  \/ TickUndelivered("loop")

SpecSend == InitSend /\ [][NextSend]_vars

\* loopTick, with sendMessage and writeFileSync failing now and then, on
\* the smallest site
NextFault ==
  \/ NextSend
  \/ TickWriteFails("loop")

SpecFault == InitCmd /\ [][NextFault]_vars

(***************************************************************************)
(* The commands that write the state file (lines 942-1009).  Each loads    *)
(* the file and saves it in one synchronous stretch.                       *)
(***************************************************************************)
\* the chat ids set_target is given
Chats == {"here", "there"}

\* setTargetChatId(id), then the reply
SetTarget(c) ==
  /\ file' = [file EXCEPT !.targetChatId = Some(c)]
  /\ outbox' = {}
  /\ reply' = "OK. Target chat set"
  /\ UNCHANGED <<site, pc, st, lists, results, sent, closedMsg, prevTick,
                 timers, lost, args, ret, TICK_RUNNING>>

\* const st = loadState(); st.seeded = true; saveState(st);
ReseedOff ==
  /\ file' = [file EXCEPT !.seeded = TRUE]
  /\ outbox' = {}
  /\ reply' = "Seeding disabled"
  /\ UNCHANGED <<site, pc, st, lists, results, sent, closedMsg, prevTick,
                 timers, lost, args, ret, TICK_RUNNING>>

\* st.markets[merged.id] || {}: every field undefined
blankRecord ==
  [ announcedOpen |-> FALSE, announcedClosed |-> FALSE, announcedResolved |-> FALSE,
    lastStatus |-> "unknown", url |-> "", missingCount |-> 0,
    lastSeen |-> Null, closedSnapshot |-> Null, wasTrending |-> FALSE,
    retired |-> FALSE ]

\* the record announce_open_now stores for a card and its detail (or null)
announcedRecord(state, id, card, detail) ==
  LET old == IF id \in knownIds(state) THEN state.markets[id] ELSE blankRecord
      opts == uniqueOptions(IF Len(card.options) > 0 THEN card.options
                            ELSE IF detail = Null THEN <<>> ELSE detail[1].options)
  IN [ old EXCEPT
         !.announcedOpen = TRUE,
         !.lastStatus    = "open",
         !.url           = IF detail = Null THEN card.url ELSE detail[1].url,
         !.missingCount  = 0,
         !.wasTrending   = FALSE,
         !.lastSeen      = Some([options |-> opts]) ]

\* announce_open_now for one card of the active list: the scrapes resolve,
\* the message is sent, the state is loaded, changed and saved
AnnounceOpenNow ==
  \E id \in site.ids : \E card \in Cards : \E detail \in {Null} \cup { Some(d) : d \in Details } :
    LET rec == announcedRecord(file, id, card, detail)
    IN /\ outbox' = {[id |-> id, kind |-> "open", options |-> lastSeenOptions(rec),
                      chat |-> getTargetChatId, delivered |-> TRUE]}
       /\ sent' = [sent EXCEPT ![id]["open"] = bump(@)]
       /\ file' = [file EXCEPT !.markets =
                     [ i \in knownIds(file) \cup {id} |->
                         IF i = id THEN rec ELSE file.markets[i] ]]
       /\ reply' = "Announced"
       /\ UNCHANGED <<site, pc, st, lists, results, closedMsg, prevTick,
                      timers, lost, args, ret, TICK_RUNNING>>

\* loopTick and the commands, which run between the steps of a tick
NextCtl ==
  \/ Next
  \/ \E c \in Chats : SetTarget(c)
  \/ ReseedOff
  \/ AnnounceOpenNow

SpecCtl == InitCmd /\ [][NextCtl]_vars


(***************************************************************************)
(* mapWinnerToLabel (lines 137-156).  A string is the sequence of its      *)
(* characters, so that trim, toUpperCase, includes and startsWith are      *)
(* computed.                                                               *)
(***************************************************************************)
\* Longest option list given to mapWinnerToLabel.
MaxOptions == 3

LowerCase == <<"a", "b", "c", "d", "e", "f", "g", "h", "i", "j", "k", "l", "m", "n", "o", "p", "q", "r", "s", "t", "u", "v", "w", "x", "y", "z">>
UpperCase == <<"A", "B", "C", "D", "E", "F", "G", "H", "I", "J", "K", "L", "M", "N", "O", "P", "Q", "R", "S", "T", "U", "V", "W", "X", "Y", "Z">>

toUpperChar(c) ==
  IF \E i \in 1..26 : LowerCase[i] = c
    THEN UpperCase[CHOOSE i \in 1..26 : LowerCase[i] = c]
    ELSE c

\* String.prototype.toUpperCase
toUpperCase(s) == [i \in 1..Len(s) |-> toUpperChar(s[i])]

\* String.prototype.trim
trim(s) ==
  LET inked == { i \in 1..Len(s) : s[i] # " " }
  IN IF inked = {} THEN <<>>
     ELSE SubSeq(s, CHOOSE i \in inked : \A j \in inked : i <= j,
                    CHOOSE i \in inked : \A j \in inked : i >= j)

\* String.prototype.includes
includes(s, sub) ==
  \E i \in 0..(Len(s) - Len(sub)) : SubSeq(s, i + 1, i + Len(sub)) = sub

\* String.prototype.startsWith
startsWith(s, prefix) ==
  Len(prefix) <= Len(s) /\ SubSeq(s, 1, Len(prefix)) = prefix

YES == <<"Y", "E", "S">>
NO == <<"N", "O">>
DRAW == <<"D", "R", "A", "W">>
INVALID == <<"I", "N", "V", "A", "L", "I", "D">>
Invalid == <<"I", "n", "v", "a", "l", "i", "d">>

\* options[i + 1] taken for options[i]
labelAt_offByOne(options, i, token) ==
  IF i + 1 < Len(options) THEN options[i + 2].label ELSE token

\* options[i]?.label ?? token, i counted from 0
labelAt(options, i, token) ==
  IF i < Len(options) THEN options[i + 1].label ELSE token

\* the fallback without its INVALID line
conventionLabel_noInvalid(R, r, options) ==
  IF startsWith(R, YES) THEN labelAt(options, 0, YES)
  ELSE IF startsWith(R, NO) THEN labelAt(options, 1, NO)
  ELSE IF startsWith(R, DRAW) THEN labelAt(options, 2, DRAW)
  ELSE r

\* YES/NO/DRAW mapping fallback, INVALID, and the raw string itself
conventionLabel(R, r, options) ==
  IF startsWith(R, YES) THEN labelAt(options, 0, YES)
  ELSE IF startsWith(R, NO) THEN labelAt(options, 1, NO)
  ELSE IF startsWith(R, DRAW) THEN labelAt(options, 2, DRAW)
  ELSE IF includes(R, INVALID) THEN Invalid
  ELSE r

\* "exact contains": the options whose label is not empty and is in R
containedAt(R, options) ==
  { i \in 1..Len(options) :
      options[i].label # <<>> /\ includes(R, toUpperCase(options[i].label)) }

\* returns Null for null, Some(label) for a string
mapWinnerToLabel(winnerRaw, options) ==
  IF winnerRaw = <<>> THEN Null
  ELSE LET r    == trim(winnerRaw)
           R    == toUpperCase(r)
           hits == containedAt(R, options)
       IN IF hits # {}
            THEN Some(options[CHOOSE i \in hits : \A j \in hits : i <= j].label)
            ELSE Some(conventionLabel(R, r, options))

\* Raw winner texts of a resolved page.
rawYES == <<"Y", "E", "S">>
rawYesLower == <<"y", "e", "s">>
rawYesPadded == <<" ", "Y", "e", "s", " ">>
rawNO == <<"N", "O">>
rawNoLower == <<"n", "o">>
rawDRAW == <<"D", "R", "A", "W">>
rawDrawLower == <<"d", "r", "a", "w">>
rawINVALID == <<"I", "N", "V", "A", "L", "I", "D">>
rawInvalidNoMajority == <<"i", "n", "v", "a", "l", "i", "d", " ", "-", " ", "n", "o", " ", "m", "a", "j", "o", "r", "i", "t", "y">>
rawNotInvalid == <<"N", "o", "t", " ", "i", "n", "v", "a", "l", "i", "d">>
rawLakers == <<"L", "a", "k", "e", "r", "s">>
rawLakersWin == <<"L", "A", "K", "E", "R", "S", " ", "W", "I", "N">>
rawVoid == <<"V", "o", "i", "d">>
rawEmpty == <<>>

RawWinners ==
  { rawYES, rawYesLower, rawYesPadded, rawNO, rawNoLower,
    rawDRAW, rawDrawLower, rawINVALID, rawInvalidNoMajority, rawNotInvalid,
    rawLakers, rawLakersWin, rawVoid, rawEmpty }

\* Option labels.
Lakers == <<"L", "a", "k", "e", "r", "s">>
Celtics == <<"C", "e", "l", "t", "i", "c", "s">>
LabelDraw == <<"D", "r", "a", "w">>
LabelNo == <<"N", "o">>
LabelEmpty == <<>>

OptionLabels == { Lakers, Celtics, LabelDraw, LabelNo, LabelEmpty }

\* the option lists of at most MaxOptions options
OptionLists ==
  UNION { [1..n -> [label : OptionLabels]] : n \in 0..MaxOptions }

InitWinner ==
  /\ site \in CmdSites
  /\ Booted
  /\ args \in [winnerRaw : RawWinners, options : OptionLists]
  /\ ret = Null

\* const winner = mapWinnerToLabel(winnerRaw, options)
MapWinner ==
  /\ ret = Null
  /\ ret' = Some(mapWinnerToLabel(args.winnerRaw, args.options))
  /\ UNCHANGED <<site, file, pc, st, lists, results, outbox, sent, closedMsg,
                 prevTick, timers, reply, lost, args, TICK_RUNNING>>

SpecWinner == InitWinner /\ [][MapWinner]_vars

(***************************************************************************)
(* Option normalisation with inference of the missing percentage: the      *)
(* uniqueOptions of src/unnamed/part_000 (lines 121-139) and the norm of   *)
(* scrapeMarketDetail (src/index.js lines 502-519).  A pct is Some(n) or   *)
(* Null; the scrapers produce whole numbers (Math.round, parseInt).        *)
(***************************************************************************)
\* Longest list of scraped option rows.
MaxRows == 3

\* Math.max(0, Math.min(100, n))
clamp(n) == IF n < 0 THEN 0 ELSE IF n > 100 THEN 100 ELSE n

\* part_000: the banned words of its cleanLabel, on the labels of the model
part000_IsBanned(s) ==
  ToUpperCase(s) \in {"PROBABILITY", "CHART", "POOL", "SPORTS", "WINS", "IMPLIED",
                      "HOW IT WORKS", "PAYOUTS", "RESOLUTION", "EARLY CASH-OUT"}

part000_cleanLabel(label) ==
  IF label = "" THEN ""
  ELSE LET s == StripCurrent(label)
       IN IF part000_IsBanned(s) THEN "" ELSE s

\* part_000: (o?.pct != null) ? Math.max(0, Math.min(100, Math.round(o.pct))) : null
part000_pct(pct) == IF pct = Null THEN Null ELSE Some(clamp(pct[1]))

RECURSIVE part000_UniqueFrom(_, _, _, _)
part000_UniqueFrom(options, i, out, seen) ==
  IF i > Len(options) \/ Len(out) >= 3 THEN out
  ELSE LET o   == options[i]
           lbl == part000_cleanLabel(o.label)
           key == ToUpperCase(lbl)
       IN IF lbl = "" \/ key \in seen
            THEN part000_UniqueFrom(options, i + 1, out, seen)
            ELSE part000_UniqueFrom(options, i + 1,
                                    Append(out, [label |-> lbl, pct |-> part000_pct(o.pct)]),
                                    seen \cup {key})

\* the two-way inference left out
part000_infer_none(out) == out

\* part_000: if (out.length === 2) { ... b.pct = 100 - a.pct ... }
part000_infer(out) ==
  IF Len(out) # 2 THEN out
  ELSE LET a  == out[1]
           b  == out[2]
           b1 == IF a.pct # Null /\ b.pct = Null THEN Some(100 - a.pct[1]) ELSE b.pct
           a1 == IF b1 # Null /\ a.pct = Null THEN Some(100 - b1[1]) ELSE a.pct
       IN << [a EXCEPT !.pct = a1], [b EXCEPT !.pct = b1] >>

\* part_000: uniqueOptions
part000_uniqueOptions(options) ==
  part000_infer(part000_UniqueFrom(options, 1, <<>>, {}))

\* index.js: (o.pct != null && o.pct >= 0 && o.pct <= 100) ? Math.round(o.pct) : null
pctVal(pct) == IF pct # Null /\ pct[1] >= 0 /\ pct[1] <= 100 THEN pct ELSE Null

\* index.js: the byLabel map after the rows from i on; the entries of the
\* map, in insertion order, carry their key U
RECURSIVE byLabelFrom(_, _, _)
byLabelFrom(options, i, entries) ==
  IF i > Len(options) THEN entries
  ELSE LET o == options[i]
           L == StripCurrent(o.label)
           U == ToUpperCase(L)
           v == pctVal(o.pct)
       IN IF L = "" \/ IsBanned(L)
            THEN byLabelFrom(options, i + 1, entries)
          ELSE IF \A k \in 1..Len(entries) : entries[k].key # U
            THEN byLabelFrom(options, i + 1,
                             Append(entries, [key |-> U, label |-> L, pct |-> v]))
          ELSE byLabelFrom(options, i + 1,
                 [ k \in 1..Len(entries) |->
                     IF entries[k].key = U /\ v # Null
                       THEN [entries[k] EXCEPT !.pct = v] ELSE entries[k] ])

\* index.js: if (norm.length === 2) { ... Math.max(0, Math.min(100, 100 - a.pct)) ... }
inferNorm(norm) ==
  IF Len(norm) # 2 THEN norm
  ELSE LET a  == norm[1]
           b  == norm[2]
           b1 == IF a.pct # Null /\ b.pct = Null THEN Some(clamp(100 - a.pct[1])) ELSE b.pct
           a1 == IF b1 # Null /\ a.pct = Null THEN Some(clamp(100 - b1[1])) ELSE a.pct
       IN << [a EXCEPT !.pct = a1], [b EXCEPT !.pct = b1] >>

\* index.js: norm, the options scrapeMarketDetail returns
normalize(options) ==
  LET entries == byLabelFrom(options, 1, <<>>)
      values  == [ k \in 1..Len(entries) |-> [label |-> entries[k].label, pct |-> entries[k].pct] ]
  IN inferNorm(IF Len(values) > 3 THEN SubSeq(values, 1, 3) ELSE values)

\* What a scraped row can carry: a label, and a percentage, a number that is
\* no percentage (the text "150%"), or none.
RowLabels == {"Home", "Away", "HOME", "Pool"}
RowPcts == {Null, Some(0), Some(60), Some(100), Some(150)}

OptionRows == UNION { [1..n -> [label : RowLabels, pct : RowPcts]] : n \in 0..MaxRows }

InitOptions ==
  /\ site \in CmdSites
  /\ Booted
  /\ args \in [options : OptionRows]
  /\ ret = Null

\* uniqueOptions(options) of part_000, and the normalisation of index.js
NormalizeOptions ==
  /\ ret = Null
  /\ ret' = Some([unique |-> part000_uniqueOptions(args.options),
                  norm   |-> normalize(args.options)])
  /\ UNCHANGED <<site, file, pc, st, lists, results, outbox, sent, closedMsg,
                 prevTick, timers, reply, lost, args, TICK_RUNNING>>

SpecOptions == InitOptions /\ [][NormalizeOptions]_vars

(***************************************************************************)
(* The tick with closure inferred from disappearance (src/index.js lines   *)
(* 1494-1637): one list of open markets, no trending section and no        *)
(* retirement.  Under its scheduler alone nothing runs between the steps   *)
(* of a tick, so the tick is one action; lists and results keep what the   *)
(* last tick saw.                                                          *)
(***************************************************************************)
\* Largest missingCount the runs of this tick let a record reach.
MaxAbsent == 2

\* The sites of these runs.
InferSites ==
  { [ids |-> {1}, hot |-> FALSE, statuses |-> Statuses, cardOptions |-> {<<>>, CardC},
     detailOptions |-> {<<>>, DetailA}, urls |-> {"u"}, crowd |-> 0] }

\* listCards, by id
ListCards == UNION { [A -> Cards] : A \in SUBSET site.ids }

\* 5) Update missingCount
infer_updateMissing(state, cards) ==
  [ id \in knownIds(state) |->
      [ state.markets[id] EXCEPT !.missingCount =
          IF id \in DOMAIN cards THEN 0 ELSE @ + 1 ] ]

\* Merge richer list info when open
infer_merge(m, cards) ==
  IF m.status = "open" /\ m.id \in DOMAIN cards /\ Len(cards[m.id].options) >= 2
    THEN [m EXCEPT !.options = cards[m.id].options]
    ELSE m

\* 4) Cold-start seeding: the record of a result
infer_seedRecord(m, cards) ==
  [ announcedOpen     |-> m.status = "open",
    announcedClosed   |-> m.status = "closed",
    announcedResolved |-> m.status = "resolved",
    lastStatus        |-> m.status,
    url               |-> m.url,
    missingCount      |-> 0,
    lastSeen          |-> Some([options |-> IF m.id \in DOMAIN cards
                                              THEN cards[m.id].options ELSE m.options]),
    closedSnapshot    |-> IF m.status = "closed" THEN Some([options |-> m.options])
                          ELSE Null ]

\* the record a market without one starts from
infer_defaultPrev(m) ==
  [ announcedOpen |-> FALSE, announcedClosed |-> FALSE, announcedResolved |-> FALSE,
    lastStatus |-> "unknown", url |-> m.url, missingCount |-> 0,
    lastSeen |-> Null, closedSnapshot |-> Null ]

\* prev = state.markets[m.id] || { ... }: the record as step 5 left it
infer_prevOf(state, cards, m) ==
  IF m.id \in knownIds(state) THEN infer_updateMissing(state, cards)[m.id]
  ELSE infer_defaultPrev(m)

\* Infer CLOSED if disappeared from list but detail still says open
inferredStatus(prev, m, cards) ==
  IF m.id \notin DOMAIN cards /\ prev.missingCount >= 1 /\ m.status = "open"
    THEN "closed" ELSE m.status

\* While OPEN, keep updating lastSeen with freshest card data
infer_nextLastSeen(prev, m, cards) ==
  IF m.status = "open"
    THEN Some([options |-> IF m.id \in DOMAIN cards /\ Len(cards[m.id].options) > 0
                             THEN cards[m.id].options ELSE m.options])
    ELSE prev.lastSeen

\* On first CLOSED, snapshot final pool options if not already
infer_nextClosedSnapshot(prev, m, cards) ==
  IF inferredStatus(prev, m, cards) = "closed" /\ prev.closedSnapshot = Null
    THEN Some([options |-> IF Len(lastSeenOptions(prev)) > 0
                             THEN lastSeenOptions(prev) ELSE m.options])
    ELSE prev.closedSnapshot

\* next, as stored in state.markets[m.id]
infer_nextRecord(prev, m, cards) ==
  LET status == inferredStatus(prev, m, cards)
  IN [ prev EXCEPT
         !.url               = m.url,
         !.lastSeen          = infer_nextLastSeen(prev, m, cards),
         !.closedSnapshot    = infer_nextClosedSnapshot(prev, m, cards),
         !.announcedOpen     = @ \/ status = "open",
         !.announcedClosed   = @ \/ status = "closed",
         !.announcedResolved = @ \/ status = "resolved",
         !.lastStatus        = status ]

\* the calls of send() the announcements of m make
infer_sendsOf(prev, m, cards, chat) ==
  LET status   == inferredStatus(prev, m, cards)
      seen     == infer_nextLastSeen(prev, m, cards)
      snapshot == infer_nextClosedSnapshot(prev, m, cards)
      final    == IF snapshot # Null /\ Len(snapshot[1].options) > 0 THEN snapshot[1].options
                  ELSE IF Len(lastSeenOptions(prev)) > 0 THEN lastSeenOptions(prev)
                  ELSE m.options
  IN (IF status = "open" /\ ~prev.announcedOpen
        THEN {[id |-> m.id, kind |-> "open",
               options |-> IF seen # Null /\ Len(seen[1].options) > 0
                             THEN seen[1].options ELSE m.options,
               chat |-> chat, delivered |-> TRUE]}
        ELSE {})
     \cup
     (IF status = "closed" /\ ~prev.announcedClosed
        THEN {[id |-> m.id, kind |-> "closed", options |-> final,
               chat |-> chat, delivered |-> TRUE]}
        ELSE {})
     \cup
     (IF status = "resolved" /\ ~prev.announcedResolved
        THEN {[id |-> m.id, kind |-> "resolved", options |-> final,
               chat |-> chat, delivered |-> TRUE]}
        ELSE {})

\* the state the tick saves, seeding or not
infer_savedState(state, cards, snaps) ==
  IF ~state.seeded /\ DOMAIN snaps # {}
    THEN [ state EXCEPT
             !.markets = [ id \in knownIds(state) \cup DOMAIN snaps |->
                             IF id \in DOMAIN snaps THEN infer_seedRecord(snaps[id], cards)
                             ELSE state.markets[id] ],
             !.seeded = TRUE ]
    ELSE [ state EXCEPT
             !.markets = [ id \in knownIds(state) \cup DOMAIN snaps |->
                             IF id \in DOMAIN snaps
                               THEN infer_nextRecord(infer_prevOf(state, cards, snaps[id]),
                                                     snaps[id], cards)
                               ELSE infer_updateMissing(state, cards)[id] ] ]

infer_allSends(state, cards, snaps, chat) ==
  IF ~state.seeded /\ DOMAIN snaps # {} THEN {}
  ELSE UNION { infer_sendsOf(infer_prevOf(state, cards, snaps[id]), snaps[id], cards, chat) :
                 id \in DOMAIN snaps }

\* one tick: the list, loadState, the detail scrapes of listIds and
\* knownIds (each giving a snapshot or none), seeding or the announcements,
\* saveState
InferenceTick ==
  \E cards \in ListCards :
    /\ \A id \in knownIds(file) :
         file.markets[id].missingCount < MaxAbsent \/ id \in DOMAIN cards
    /\ \E R \in SUBSET (DOMAIN cards \cup knownIds(file)) : \E d \in [R -> Details] :
         LET snaps == [ id \in R |->
                         infer_merge([id |-> id, status |-> d[id].status, url |-> d[id].url,
                                      options |-> d[id].options], cards) ]
             out   == infer_allSends(file, cards, snaps, getTargetChatId)
         IN /\ lists' = [lists EXCEPT !["loop"] = [active |-> cards, trending |-> <<>>]]
            /\ results' = [results EXCEPT !["loop"] =
                             [snaps |-> snaps, others |-> 0,
                              fetched |-> DOMAIN cards \cup knownIds(file)]]
            /\ outbox' = out
            /\ sent' = [ id \in site.ids |-> [ k \in AllKinds |->
                           IF \E x \in out : x.id = id /\ x.kind = k
                             THEN bump(sent[id][k]) ELSE sent[id][k] ] ]
            /\ file' = infer_savedState(file, cards, snaps)
    /\ UNCHANGED <<site, pc, st, closedMsg, prevTick, timers, reply, lost, args, ret, TICK_RUNNING>>

InitInfer ==
  /\ site \in InferSites
  /\ Booted
  /\ args = Null
  /\ ret = Null

SpecInfer == InitInfer /\ [][InferenceTick]_vars

(***************************************************************************)
(* The tick guarded by a running flag (src/unnamed/part_001, lines 1229 to *)
(* 1346).  Its ledger is the global `state`, held here in `file`; a record *)
(* carries the four announcement flags and `retired`.  Titles, urls and    *)
(* option lists only shape the message texts and are left out.  The module *)
(* awaits a first call of tick and then arms the interval: timers = 0      *)
(* until setInterval has been reached.                                     *)
(***************************************************************************)
RunningSites ==
  { [ids |-> {1, 2}, hot |-> TRUE, statuses |-> Statuses, cardOptions |-> {<<>>},
     detailOptions |-> {<<>>}, urls |-> {"u"}, crowd |-> 0] }

\* the record the seeding loop writes (lines 1251 to 1261)
guarded_seedRecord ==
  [announcedOpen |-> TRUE, announcedTrending |-> TRUE, announcedClosed |-> FALSE,
   announcedResolved |-> FALSE, retired |-> FALSE]

\* `rec || {}`: the flags of a record that does not exist are undefined
guarded_noRecord ==
  [announcedOpen |-> FALSE, announcedTrending |-> FALSE, announcedClosed |-> FALSE,
   announcedResolved |-> FALSE, retired |-> FALSE]

guarded_rec(markets, id) ==
  IF id \in DOMAIN markets THEN markets[id] ELSE guarded_noRecord

guarded_msg(id, k) ==
  [id |-> id, kind |-> k, options |-> <<>>, chat |-> TELEGRAM_CHAT_ID, delivered |-> TRUE]

\* the new-market loop over the active list (lines 1272 to 1289); got[id]
\* tells whether scrapeDetail returned a page or null
guarded_newNeeded(markets, l, id) ==
  id \in DOMAIN l.active /\ ~guarded_rec(markets, id).announcedOpen

guarded_afterNew(markets, l, got) ==
  [ id \in DOMAIN markets \cup { i \in DOMAIN l.active : got[i] } |->
      IF guarded_newNeeded(markets, l, id) /\ got[id]
        THEN [guarded_rec(markets, id) EXCEPT !.announcedOpen = TRUE]
        ELSE markets[id] ]

guarded_newSends(markets, l, got) ==
  { guarded_msg(id, "open") : id \in { i \in DOMAIN l.active :
                                         guarded_newNeeded(markets, l, i) /\ got[i] } }

\* the trending loop (lines 1292 to 1299)
guarded_trendNeeded(markets, l, id) ==
  id \in DOMAIN l.trending /\ ~guarded_rec(markets, id).announcedTrending

guarded_afterTrending(markets, l) ==
  [ id \in DOMAIN markets \cup DOMAIN l.trending |->
      IF guarded_trendNeeded(markets, l, id)
        THEN [guarded_rec(markets, id) EXCEPT !.announcedTrending = TRUE]
        ELSE markets[id] ]

guarded_trendSends(markets, l) ==
  { guarded_msg(id, "trending") : id \in { i \in DOMAIN l.trending :
                                             guarded_trendNeeded(markets, l, i) } }

\* the detail pass over the records that are not retired (lines 1302 to
\* 1336); d[id] is the status of the page, or "none" when scrapeDetail
\* returned null
guarded_closes(markets, d, id) ==
  ~markets[id].retired /\ d[id] = "closed" /\ ~markets[id].announcedClosed

guarded_resolves(markets, d, id) ==
  ~markets[id].retired /\ d[id] = "resolved" /\ ~markets[id].announcedResolved

guarded_afterDetail(markets, d) ==
  [ id \in DOMAIN markets |->
      IF guarded_closes(markets, d, id)
        THEN [markets[id] EXCEPT !.announcedClosed = TRUE]
      ELSE IF guarded_resolves(markets, d, id)
        THEN [markets[id] EXCEPT !.announcedResolved = TRUE, !.retired = TRUE]
      ELSE markets[id] ]

guarded_detailSends(markets, d) ==
  { guarded_msg(id, "closed") : id \in { i \in DOMAIN markets : guarded_closes(markets, d, i) } }
  \cup
  { guarded_msg(id, "resolved") : id \in { i \in DOMAIN markets : guarded_resolves(markets, d, i) } }

\* the end of a call of tick: a return resets the flag; an exception leaves
\* the function at the throwing statement, and tick has no try or finally.
\* The module reaches setInterval (line 1346) only when the awaited first
\* call (line 1345) resolves.
guarded_end(threw) ==
  /\ pc' = [pc EXCEPT !["loop"] = "idle"]
  /\ TICK_RUNNING' = (IF threw THEN TICK_RUNNING ELSE FALSE)
  /\ timers' = IF timers = 0 /\ ~threw THEN 1 ELSE timers

\* `await tick()` at line 1345
GuardedFirstCall ==
  /\ pc["loop"] = "boot"
  /\ ~TICK_RUNNING
  /\ TICK_RUNNING' = TRUE
  /\ pc' = [pc EXCEPT !["loop"] = "listing"]
  /\ UNCHANGED <<site, file, st, lists, results, outbox, sent, closedMsg, prevTick,
                 timers, reply, lost, args, ret>>

\* a fire of the interval while no call is running (lines 1232 and 1233)
GuardedTickStart ==
  /\ timers = 1
  /\ ~TICK_RUNNING
  /\ TICK_RUNNING' = TRUE
  /\ pc' = [pc EXCEPT !["loop"] = "listing"]
  /\ UNCHANGED <<site, file, st, lists, results, outbox, sent, closedMsg, prevTick,
                 timers, reply, lost, args, ret>>

\* a fire of the interval while the flag is set: `if (TICK_RUNNING) return`
GuardedTickSkipped ==
  /\ timers = 1
  /\ TICK_RUNNING
  /\ UNCHANGED vars

\* scrapeList gave two empty lists, or caught its own error (lines 1242 to
\* 1246)
GuardedListEmpty ==
  /\ pc["loop"] = "listing"
  /\ guarded_end(FALSE)
  /\ lists' = [lists EXCEPT !["loop"] = NoLists]
  /\ outbox' = {}
  /\ UNCHANGED <<site, file, st, results, sent, closedMsg, prevTick, reply, lost, args, ret>>

\* the silent seed (lines 1250 to 1269)
GuardedSeed ==
  /\ pc["loop"] = "listing"
  /\ ~file.seeded
  /\ \E l \in ListResults :
       /\ DOMAIN l.active \cup DOMAIN l.trending # {}
       /\ lists' = [lists EXCEPT !["loop"] = l]
       /\ file' = [file EXCEPT
                     !.markets = [ id \in DOMAIN file.markets \cup DOMAIN l.active
                                            \cup DOMAIN l.trending |->
                                     IF id \in DOMAIN l.active \cup DOMAIN l.trending
                                       THEN guarded_seedRecord ELSE file.markets[id] ],
                     !.seeded = TRUE]
  /\ guarded_end(FALSE)
  /\ outbox' = {}
  /\ UNCHANGED <<site, st, results, sent, closedMsg, prevTick, reply, lost, args, ret>>

\* the lists of a seeded ledger: the tick goes on to its three loops
GuardedListed ==
  /\ pc["loop"] = "listing"
  /\ file.seeded
  /\ \E l \in ListResults :
       /\ DOMAIN l.active \cup DOMAIN l.trending # {}
       /\ lists' = [lists EXCEPT !["loop"] = l]
  /\ pc' = [pc EXCEPT !["loop"] = "working"]
  /\ UNCHANGED <<site, file, st, results, outbox, sent, closedMsg, prevTick,
                 timers, reply, lost, args, ret, TICK_RUNNING>>

\* the three loops with every launch and every write succeeding (lines 1272
\* to 1339); send catches its own errors
GuardedWork ==
  /\ pc["loop"] = "working"
  /\ \E got \in [site.ids -> BOOLEAN] : \E d \in [site.ids -> {"none"} \cup site.statuses] :
       LET l  == lists["loop"]
           m0 == file.markets
           m1 == guarded_afterNew(m0, l, got)
           m2 == guarded_afterTrending(m1, l)
           m3 == guarded_afterDetail(m2, d)
           out == guarded_newSends(m0, l, got) \cup guarded_trendSends(m1, l)
                    \cup guarded_detailSends(m2, d)
       IN /\ file' = [file EXCEPT !.markets = m3]
          /\ outbox' = out
          /\ sent' = [ id \in site.ids |-> [ k \in AllKinds |->
                         IF \E x \in out : x.id = id /\ x.kind = k
                           THEN bump(sent[id][k]) ELSE sent[id][k] ] ]
  /\ guarded_end(FALSE)
  /\ UNCHANGED <<site, st, lists, results, closedMsg, prevTick, reply, lost, args, ret>>

\* puppeteer.launch rejects in newBrowserPage, which scrapeList (line 1102)
\* and scrapeDetail (line 1150) call before their try: the rejection leaves
\* tick at the await, before anything of this step is written
GuardedLaunchFails ==
  /\ pc["loop"] \in {"listing", "working"}
  /\ guarded_end(TRUE)
  /\ outbox' = {}
  /\ UNCHANGED <<site, file, st, lists, results, sent, closedMsg, prevTick, reply,
                 lost, args, ret>>

\* writeFileSync throws in the saveState of the seeding branch (line 1264):
\* the global state is already seeded, the file is not written
GuardedWriteFails ==
  /\ pc["loop"] = "listing"
  /\ ~file.seeded
  /\ \E l \in ListResults :
       /\ DOMAIN l.active \cup DOMAIN l.trending # {}
       /\ lists' = [lists EXCEPT !["loop"] = l]
       /\ file' = [file EXCEPT
                     !.markets = [ id \in DOMAIN file.markets \cup DOMAIN l.active
                                            \cup DOMAIN l.trending |->
                                     IF id \in DOMAIN l.active \cup DOMAIN l.trending
                                       THEN guarded_seedRecord ELSE file.markets[id] ],
                     !.seeded = TRUE]
  /\ guarded_end(TRUE)
  /\ outbox' = {}
  /\ UNCHANGED <<site, st, results, sent, closedMsg, prevTick, reply, lost, args, ret>>

InitRunning ==
  /\ site \in RunningSites
  /\ file = EmptyState
  /\ pc = [p \in Procs |-> IF p = "loop" THEN "boot" ELSE "idle"]
  /\ st = [p \in Procs |-> EmptyState]
  /\ lists = [p \in Procs |-> NoLists]
  /\ results = [p \in Procs |-> NoResults]
  /\ outbox = {}
  /\ sent = [id \in site.ids |-> [k \in AllKinds |-> 0]]
  /\ closedMsg = [id \in site.ids |-> Null]
  /\ prevTick = [id \in site.ids |-> "none"]
  /\ timers = 0
  /\ reply = "none"
  /\ lost = {}
  /\ TICK_RUNNING = FALSE
  /\ args = Null
  /\ ret = Null

NextRunning ==
  \/ GuardedFirstCall
  \/ GuardedTickStart
  \/ GuardedTickSkipped
  \/ GuardedListEmpty
  \/ GuardedSeed
  \/ GuardedListed
  \/ GuardedWork
  \/ GuardedLaunchFails
  \/ GuardedWriteFails

SpecRunning == InitRunning /\ [][NextRunning]_vars

(***************************************************************************)
(* The poll interval (src/index.js, line 1039):                            *)
(*   Math.max(5, parseInt(POLL_INTERVAL_SECONDS || '30', 10))              *)
(* An environment value is a sequence of one-character strings, or Null    *)
(* when the variable is unset.  A JavaScript number is Some(n) or NaN.      *)
(***************************************************************************)
MaxEnvLen == 3

\* NaN, next to the numbers Some(n)
NaN == Null

\* the characters the environment values are made of, and the decimal digits
EnvChars == {"0", "1", "7", "-", " ", "x"}
digitVal ==
  ("0" :> 0) @@ ("1" :> 1) @@ ("2" :> 2) @@ ("3" :> 3) @@ ("4" :> 4) @@
  ("5" :> 5) @@ ("6" :> 6) @@ ("7" :> 7) @@ ("8" :> 8) @@ ("9" :> 9)

\* the number a sequence of digits denotes
RECURSIVE decimal(_)
decimal(ds) ==
  IF ds = <<>> THEN 0
  ELSE 10 * decimal(SubSeq(ds, 1, Len(ds) - 1)) + digitVal[ds[Len(ds)]]

\* parseInt(s, 10): leading white space skipped, an optional sign, then the
\* longest run of digits; NaN when there is no digit there
parseInt(s) ==
  LET first  == IF \E i \in 1..Len(s) : s[i] # " "
                  THEN CHOOSE i \in 1..Len(s) :
                         s[i] # " " /\ \A j \in 1..(i - 1) : s[j] = " "
                  ELSE Len(s) + 1
      signed == first <= Len(s) /\ s[first] = "-"
      from   == IF signed THEN first + 1 ELSE first
      stop   == IF \E i \in from..Len(s) : s[i] \notin DOMAIN digitVal
                  THEN CHOOSE i \in from..Len(s) :
                         /\ s[i] \notin DOMAIN digitVal
                         /\ \A j \in from..(i - 1) : s[j] \in DOMAIN digitVal
                  ELSE Len(s) + 1
      digits == SubSeq(s, from, stop - 1)
  IN IF digits = <<>> THEN NaN
     ELSE IF signed THEN Some(0 - decimal(digits)) ELSE Some(decimal(digits))

\* const { POLL_INTERVAL_SECONDS = '30' } = process.env;
\* const intervalSec = Math.max(5, parseInt(POLL_INTERVAL_SECONDS || '30', 10));
\* Math.max returns NaN when an argument is NaN
intervalSec(env) ==
  LET text == IF env = Null \/ env[1] = <<>> THEN <<"3", "0">> ELSE env[1]
      n    == parseInt(text)
  IN IF n = NaN THEN NaN ELSE IF n[1] > 5 THEN n ELSE Some(5)

\* the values of POLL_INTERVAL_SECONDS: unset, or a string
EnvValues ==
  {Null} \cup { Some(s) : s \in UNION { [1..n -> EnvChars] : n \in 0..MaxEnvLen } }

InitInterval ==
  /\ site \in InferSites
  /\ Booted
  /\ args \in [env : EnvValues]
  /\ ret = Null

\* the module reaches line 1039 and arms the loop with the interval
ArmInterval ==
  /\ ret = Null
  /\ ret' = Some(intervalSec(args.env))
  /\ UNCHANGED <<site, file, pc, st, lists, results, outbox, sent, closedMsg,
                 prevTick, timers, reply, lost, args, TICK_RUNNING>>

SpecInterval == InitInterval /\ [][ArmInterval]_vars

(***************************************************************************)
(* Properties.                                                             *)
(***************************************************************************)
hasSend(box, id, k) == \E s \in box : s.id = id /\ s.kind = k

\* C1: at most once: send is never called a second time with the same
\* lifecycle kind (open, closed, resolved) for the same market.
C1_AtMostOnce ==
  \A id \in site.ids : \A k \in Kinds : sent[id][k] <= 1

\* C2: cold-start silence: the step that ends a tick which started with
\* seeded = false and reached the seeding test with a non-empty results
\* array sends nothing and leaves seeded = true in the state file.
C2_ColdStartSilence ==
  [][ ( /\ pc["loop"] = "scraped"
        /\ ~st["loop"].seeded
        /\ (DOMAIN results["loop"].snaps # {} \/ results["loop"].others > 0) )
      => (outbox' = {} /\ sent' = sent /\ file'.seeded) ]_vars

\* a seeded ledger holding a closed market that was never announced
C2_Witness ==
  /\ pc["loop"] = "idle"
  /\ file.seeded
  /\ outbox = {}
  /\ \A id \in site.ids : \A k \in AllKinds : sent[id][k] = 0
  /\ \E id \in knownIds(file) :
       /\ prevTick[id] # "none"
       /\ file.markets[id].lastStatus = "closed"
       /\ file.markets[id].announcedClosed

\* C3: monotonic status: a record whose stored status is closed or resolved
\* is not stored with status open by any later step.
C3_MonotonicStatus ==
  [][ \A id \in knownIds(file) \cap knownIds(file') :
        file.markets[id].lastStatus \in {"closed", "resolved"}
          => file'.markets[id].lastStatus # "open" ]_vars

\* C4: lifecycle order: no open notification after a closed or resolved one
\* of the same market, and no closed notification after a resolved one.
C4_LifecycleOrder ==
  [][ \A s \in outbox' :
        /\ s.kind = "open" => (sent[s.id]["closed"] = 0 /\ sent[s.id]["resolved"] = 0)
        /\ s.kind = "closed" => sent[s.id]["resolved"] = 0 ]_vars

\* C5: closed snapshot immutability: once a record has a closedSnapshot, no
\* step changes it for as long as the record is in the ledger.
C5_SnapshotFrozen ==
  [][ \A id \in knownIds(file) \cap knownIds(file') :
        file.markets[id].closedSnapshot # Null
          => file'.markets[id].closedSnapshot = file.markets[id].closedSnapshot ]_vars

\* a record whose frozen options differ from the options seen since
C5_Witness ==
  \E id \in knownIds(file) :
    /\ file.markets[id].closedSnapshot # Null
    /\ Len(snapshotOptions(file.markets[id])) > 0
    /\ Len(lastSeenOptions(file.markets[id])) > 0
    /\ lastSeenOptions(file.markets[id]) # snapshotOptions(file.markets[id])
    /\ file.markets[id].lastStatus = "open"

\* C6, as claimed: the resolved notification of a market carries the
\* options of its closed notification.
C6_SameOptions ==
  [][ \A s \in outbox' :
        (s.kind = "resolved" /\ closedMsg[s.id] # Null)
          => s.options = closedMsg[s.id][1] ]_vars

\* C6, amended: the resolved notification of a market whose record holds a
\* non-empty closedSnapshot.options carries the options of its closed
\* notification.
C6_SameFrozenOptions ==
  [][ \A s \in outbox' :
        ( /\ s.kind = "resolved"
          /\ closedMsg[s.id] # Null
          /\ pc["loop"] = "scraped"
          /\ s.id \in knownIds(st["loop"])
          /\ Len(snapshotOptions(st["loop"].markets[s.id])) > 0 )
          => s.options = closedMsg[s.id][1] ]_vars

\* a resolved notification with the frozen options, after the market was
\* seen with other options
C6_Witness ==
  \E s \in outbox :
    /\ s.kind = "resolved"
    /\ closedMsg[s.id] # Null
    /\ Len(s.options) > 0
    /\ s.options = closedMsg[s.id][1]
    /\ s.id \in knownIds(file)
    /\ Len(lastSeenOptions(file.markets[s.id])) > 0
    /\ lastSeenOptions(file.markets[s.id]) # s.options

\* C7: no two ticks are in progress at once.
C7_NoOverlap ==
  ~(pc["loop"] # "idle" /\ pc["cmd"] # "idle")

\* C8: a tick asks for no detail snapshot of a market that was retired
\* when the tick loaded the state.
C8_RetiredNotFetched ==
  \A p \in Procs : \A id \in results[p].fetched : ~isRetired(st[p], id)

\* a tick past its scrapes with a retired market on the active list
C8_Witness ==
  /\ pc["loop"] = "scraped"
  /\ \E id \in activeIds(lists["loop"]) : isRetired(st["loop"], id)

\* C9: trending is edge-triggered: after seeding, for a market whose
\* snapshot the tick obtained, and the previous tick too unless the market
\* has no record yet, the trending notification is sent exactly when the id
\* is in the trending list and was not in it on the previous tick.
C9_TrendingEdge ==
  [][ (pc["loop"] = "scraped" /\ st["loop"].seeded)
      => \A id \in DOMAIN results["loop"].snaps :
           (id \notin knownIds(st["loop"]) \/ prevTick[id] # "none")
             => ( hasSend(outbox', id, "trending")
                    <=> ( /\ id \in trendingIds(lists["loop"])
                          /\ (id \notin knownIds(st["loop"]) \/ prevTick[id] = "plain") ) ) ]_vars

\* the second trending notification of a market, on its re-entry
C9_Witness ==
  \E id \in knownIds(file) :
    /\ hasSend(outbox, id, "trending")
    /\ sent[id]["trending"] = 2
    /\ file.markets[id].wasTrending
    /\ prevTick[id] = "trending"

\* C10: a tick that leaves its scrape loop has asked for the snapshot of
\* every watched market and goes on to evaluate the transitions, whether a
\* scrape threw or not.
C10_FailureIsolation ==
  [][ (pc["loop"] = "listed" /\ pc'["loop"] # "listed")
      => ( /\ pc'["loop"] = "scraped"
           /\ results'["loop"].fetched = toWatch(st["loop"], lists["loop"]) ) ]_vars

\* the announced* flag of a lifecycle kind
flagOf(rec, k) ==
  CASE k = "open" -> rec.announcedOpen
    [] k = "closed" -> rec.announcedClosed
    [] k = "resolved" -> rec.announcedResolved

\* C11: empty lists do not stop tracking: a tick whose lists are both empty
\* and whose ledger holds a non-retired market leaves its scrape loop having
\* asked for the snapshot of every non-retired market of the ledger, and
\* then sends the closed or resolved notification that a snapshot calls for.
C11_EmptyListsTracked ==
  [][ /\ ( /\ pc["loop"] = "listed"
           /\ lists["loop"] = NoLists
           /\ \E id \in knownIds(st["loop"]) : ~isRetired(st["loop"], id)
           /\ pc'["loop"] # "listed" )
         => ( /\ pc'["loop"] = "scraped"
              /\ results'["loop"].fetched =
                   { id \in knownIds(st["loop"]) : ~isRetired(st["loop"], id) } )
      /\ ( /\ pc["loop"] = "scraped"
           /\ lists["loop"] = NoLists
           /\ st["loop"].seeded )
         => \A id \in DOMAIN results["loop"].snaps \cap knownIds(st["loop"]) :
              LET m   == results["loop"].snaps[id]
                  rec == st["loop"].markets[id]
              IN /\ (m.status = "closed" /\ ~rec.announcedClosed /\ rec.lastStatus # "closed")
                       => hasSend(outbox', id, "closed")
                 /\ (m.status = "resolved" /\ ~rec.announcedResolved)
                       => hasSend(outbox', id, "resolved") ]_vars

\* C12: a refused lifecycle notification leaves its flag stored as true at
\* the end of the tick, and no lifecycle notification that was refused once
\* is sent again.
C12_FailedSendKeepsFlag ==
  [][ \A s \in outbox' :
        s.kind \in Kinds
          => /\ ~s.delivered
                  => (s.id \in knownIds(file') /\ flagOf(file'.markets[s.id], s.kind))
             /\ <<s.id, s.kind>> \notin lost ]_vars

\* C13: the scheduler always rearms: while no tick of the loop is in
\* progress exactly one timer is pending, and none while one is.
C13_AlwaysRearms ==
  /\ pc["loop"] = "idle" => timers = 1
  /\ pc["loop"] # "idle" => timers = 0

\* the loop rearmed after a tick whose saveState threw: the resolved
\* notification went out and the file does not record it
C13_Witness ==
  /\ pc["loop"] = "idle"
  /\ timers = 1
  /\ \E s \in outbox :
       /\ s.kind = "resolved"
       /\ s.id \in knownIds(file)
       /\ ~file.markets[s.id].announcedResolved

\* C14: the destination override is durable: once a chat id is stored, a
\* step that is not set_target leaves it stored and sends to it.
C14_TargetDurable ==
  [][ (file.targetChatId # Null /\ reply' # "OK. Target chat set")
      => ( /\ file'.targetChatId = file.targetChatId
           /\ \A s \in outbox' : s.chat = file.targetChatId[1] ) ]_vars

\* C15: the seeded flag is set once: no step stores seeded = false over
\* seeded = true.
C15_SeededOnce ==
  [][ file.seeded => file'.seeded ]_vars

\* C16: compaction is invisible: no notification is sent for a market whose
\* resolved notification went out and whose record is no longer in the
\* ledger.
C16_CompactionInvisible ==
  [][ \A s \in outbox' :
        ~(sent[s.id]["resolved"] >= 1 /\ s.id \notin knownIds(file)) ]_vars

\* C17: announcement flags are monotonic: a flag that is true in a record
\* is true in the record every later step stores for the market.
C17_FlagsMonotonic ==
  [][ \A id \in knownIds(file) \cap knownIds(file') : \A k \in Kinds :
        flagOf(file.markets[id], k) => flagOf(file'.markets[id], k) ]_vars

\* C18: a failed manual tick is reported: the tick of tick_now that leaves
\* its scrape loop by a throw is not followed by the reply 'Tick finished.'.
C18_FailureReported ==
  [][ (pc["cmd"] = "listed" /\ pc'["cmd"] = "idle")
      => reply' # "Tick finished." ]_vars

\* no option with a label has its label, in any case, in the raw winner
noLabelIn(raw, options) ==
  \A i \in 1..Len(options) :
    options[i].label = <<>> \/ ~includes(toUpperCase(raw), toUpperCase(options[i].label))

\* C19: winner mapping by position: a raw winner that contains no known
\* option label and starts, in any case, with YES, NO or DRAW maps to the
\* label of the first, second or third option, and to the token itself
\* when there is no such option.
C19_WinnerByPosition ==
  (ret # Null /\ noLabelIn(args.winnerRaw, args.options))
    => LET U    == toUpperCase(args.winnerRaw)
           opts == args.options
       IN /\ startsWith(U, YES)
               => ret[1] = Some(IF Len(opts) >= 1 THEN opts[1].label ELSE YES)
          /\ startsWith(U, NO)
               => ret[1] = Some(IF Len(opts) >= 2 THEN opts[2].label ELSE NO)
          /\ startsWith(U, DRAW)
               => ret[1] = Some(IF Len(opts) >= 3 THEN opts[3].label ELSE DRAW)

\* raw 'YES' with options [Lakers, Celtics] gave 'Lakers'
C19_Witness ==
  /\ args # Null
  /\ args.winnerRaw = rawYES
  /\ args.options = << [label |-> Lakers], [label |-> Celtics] >>
  /\ ret = Some(Some(Lakers))

\* C20, as claimed: a raw winner that contains INVALID, in any case, maps to
\* 'Invalid' whatever the options are.
C20_InvalidAlways ==
  (ret # Null /\ includes(toUpperCase(args.winnerRaw), INVALID))
    => ret[1] = Some(Invalid)

\* C20, amended: a raw winner that contains INVALID, contains no known option
\* label and does not start, once trimmed, with YES, NO or DRAW maps to
\* 'Invalid'.
C20_InvalidFallback ==
  ( /\ ret # Null
    /\ includes(toUpperCase(args.winnerRaw), INVALID)
    /\ noLabelIn(args.winnerRaw, args.options)
    /\ \A token \in {YES, NO, DRAW} :
         ~startsWith(toUpperCase(trim(args.winnerRaw)), token) )
    => ret[1] = Some(Invalid)

\* raw 'invalid - no majority' with options [Lakers, Celtics] gave 'Invalid'
C20_Witness ==
  /\ args # Null
  /\ args.winnerRaw = rawInvalidNoMajority
  /\ args.options = << [label |-> Lakers], [label |-> Celtics] >>
  /\ ret = Some(Some(Invalid))

\* a pct that is a percentage
isPercentage(pct) == pct # Null /\ pct[1] \in 0..100

\* C21, as claimed: of two options, one with a pct and one without, the one
\* without gets 100 minus the pct of the other, which is in 0..100; two
\* options without pct stay so.  out is the normalised list of in.
C21_Holds(in, out, known(_)) ==
  (Len(in) = 2 /\ Len(out) = 2)
    => /\ (known(in[1].pct) /\ in[2].pct = Null)
            => /\ out[1].pct = in[1].pct
               /\ out[2].pct = Some(100 - in[1].pct[1])
               /\ out[2].pct[1] \in 0..100
       /\ (known(in[2].pct) /\ in[1].pct = Null)
            => /\ out[2].pct = in[2].pct
               /\ out[1].pct = Some(100 - in[2].pct[1])
               /\ out[1].pct[1] \in 0..100
       /\ (in[1].pct = Null /\ in[2].pct = Null)
            => (out[1].pct = Null /\ out[2].pct = Null)

isNotNull(pct) == pct # Null

\* C21, as claimed: option inference, for every pct that is not null.
C21_Inference ==
  ret # Null
    => /\ C21_Holds(args.options, ret[1].unique, isNotNull)
       /\ C21_Holds(args.options, ret[1].norm, isNotNull)

\* C21, amended: option inference, for every pct that is a percentage
\* (0 to 100).
C21_InferenceOfPercentages ==
  ret # Null
    => /\ C21_Holds(args.options, ret[1].unique, isPercentage)
       /\ C21_Holds(args.options, ret[1].norm, isPercentage)

\* [{Home,60},{Away,null}] gave [{Home,60},{Away,40}] both ways
C21_Witness ==
  /\ args # Null
  /\ args.options = << [label |-> "Home", pct |-> Some(60)], [label |-> "Away", pct |-> Null] >>
  /\ ret # Null
  /\ ret[1].unique = << [label |-> "Home", pct |-> Some(60)], [label |-> "Away", pct |-> Some(40)] >>
  /\ ret[1].norm = ret[1].unique

\* the tick of the loop is about to seed / to evaluate the transitions
seeding == pc["loop"] = "scraped" /\ seedNow(st["loop"], results["loop"])
reconciling == pc["loop"] = "scraped" /\ ~seedNow(st["loop"], results["loop"])

\* the flag the record of id had when the tick loaded the state
flagAtStart(id, k) ==
  id \in knownIds(st["loop"]) /\ flagOf(st["loop"].markets[id], k)

\* C22: seeding marks the observed status as already announced: the seeding
\* tick stores every seeded record with the flag of its observed status
\* true, whichever list the id was in.
C22_SeededAsAnnounced ==
  [][ seeding
      => \A id \in DOMAIN results["loop"].snaps :
           /\ id \in knownIds(file')
           /\ flagOf(file'.markets[id], results["loop"].snaps[id].status) ]_vars

\* C23: open announcement guard: a tick that does not seed sends the open
\* notification of m exactly when m is open, m is in the active list and
\* announcedOpen was false at the start of the tick.
C23_OpenGuard ==
  [][ reconciling
      => \A id \in DOMAIN results["loop"].snaps :
           hasSend(outbox', id, "open")
             <=> ( /\ results["loop"].snaps[id].status = "open"
                   /\ id \in activeIds(lists["loop"])
                   /\ ~flagAtStart(id, "open") ) ]_vars

\* a market seen open in the trending list only: its trending notification
\* went out, no open notification, and announcedOpen is still false
C23_Witness ==
  \E id \in knownIds(file) :
    /\ file.seeded
    /\ hasSend(outbox, id, "trending")
    /\ ~hasSend(outbox, id, "open")
    /\ file.markets[id].lastStatus = "open"
    /\ ~file.markets[id].announcedOpen

\* C24: closed announcement guard: a tick that does not seed sends the
\* closed notification of m exactly when m is closed, announcedClosed was
\* false and the stored status was not closed, and then stores
\* announcedClosed = true.
C24_ClosedGuard ==
  [][ reconciling
      => \A id \in DOMAIN results["loop"].snaps :
           /\ hasSend(outbox', id, "closed")
                <=> ( /\ results["loop"].snaps[id].status = "closed"
                      /\ ~flagAtStart(id, "closed")
                      /\ ~(id \in knownIds(st["loop"])
                             /\ st["loop"].markets[id].lastStatus = "closed") )
           /\ hasSend(outbox', id, "closed")
                => (id \in knownIds(file') /\ file'.markets[id].announcedClosed) ]_vars

\* a closed notification sent for a market announced as open before, with
\* the flag stored
C24_Witness ==
  \E id \in knownIds(file) :
    /\ hasSend(outbox, id, "closed")
    /\ sent[id]["open"] = 1
    /\ file.markets[id].announcedClosed
    /\ file.markets[id].lastStatus = "closed"

\* C25: resolved announcement and retirement: a tick that does not seed
\* sends the resolved notification of m exactly when m is resolved and
\* announcedResolved was false, and then stores the record with
\* announcedResolved = true and retired = true.
C25_ResolvedGuard ==
  [][ reconciling
      => \A id \in DOMAIN results["loop"].snaps :
           /\ hasSend(outbox', id, "resolved")
                <=> ( /\ results["loop"].snaps[id].status = "resolved"
                      /\ ~flagAtStart(id, "resolved") )
           /\ hasSend(outbox', id, "resolved")
                => ( /\ id \in knownIds(file')
                     /\ file'.markets[id].announcedResolved
                     /\ file'.markets[id].retired ) ]_vars

\* C26: closed snapshot capture: the tick that sees m closed while the
\* record has no closedSnapshot stores as closedSnapshot.options the
\* lastSeen.options of the record when there are any, and the options of
\* the closed snapshot otherwise.
C26_SnapshotCapture ==
  [][ pc["loop"] = "scraped"
      => \A id \in DOMAIN results["loop"].snaps :
           LET m      == results["loop"].snaps[id]
               before == IF id \in knownIds(st["loop"])
                           THEN st["loop"].markets[id] ELSE defaultPrev(m)
           IN (m.status = "closed" /\ before.closedSnapshot = Null)
                => /\ id \in knownIds(file')
                   /\ file'.markets[id].closedSnapshot # Null
                   /\ snapshotOptions(file'.markets[id])
                        = IF Len(lastSeenOptions(before)) > 0
                            THEN lastSeenOptions(before) ELSE m.options ]_vars

\* a closed notification whose record froze the options of the list card
\* seen while the market was open
C26_Witness ==
  \E id \in knownIds(file) :
    /\ hasSend(outbox, id, "closed")
    /\ snapshotOptions(file.markets[id]) = uniqueOptions(CardC)
    /\ lastSeenOptions(file.markets[id]) = uniqueOptions(CardC)

\* C30: sticky url: no step changes the url of a record.
C30_StickyUrl ==
  [][ \A id \in knownIds(file) \cap knownIds(file') :
        file'.markets[id].url = file.markets[id].url ]_vars

\* C27: an empty list is not a closure: after a tick (lines 1494-1637)
\* whose list scrape returned no cards, no market whose detail snapshot
\* says open has got a closed notification.
C27_EmptyListNoClosure ==
  lists["loop"].active = <<>>
    => \A id \in DOMAIN results["loop"].snaps :
         results["loop"].snaps[id].status = "open" => ~hasSend(outbox, id, "closed")

\* C28: disappearance threshold: after a tick (lines 1494-1637) in which a
\* market's detail snapshot says open, the market is stored as closed or
\* has got a closed notification only if it has been absent from the list
\* for at least 2 ticks in a row.
C28_TwoTicksAbsent ==
  \A id \in DOMAIN results["loop"].snaps \cap knownIds(file) :
    ( /\ results["loop"].snaps[id].status = "open"
      /\ file.markets[id].missingCount < 2 )
      => ( /\ file.markets[id].lastStatus = "open"
           /\ ~hasSend(outbox, id, "closed") )

\* C29: the running flag never locks out: whenever no call of the guarded
\* tick is in progress, TICK_RUNNING is false, whichever way the last call
\* ended (empty lists, seeding, completion, or an exception).
C29_FlagReleased ==
  pc["loop"] \in {"idle", "boot"} => ~TICK_RUNNING

\* the watched markets whose detail fetch gave null or a snapshot without id
skipped == results["loop"].fetched \ DOMAIN results["loop"].snaps

\* rec and old agree on every field but missingCount
sameButMissing(rec, old) == [rec EXCEPT !.missingCount = old.missingCount] = old

\* C31: a snapshot without id is skipped: the tick ends without an error,
\* creates no record for the market, changes no field of its record other
\* than missingCount, sends nothing for it, and goes on with the other
\* watched markets, whose observed status it stores.
C31_SkippedSnapshot ==
  [][ pc["loop"] = "scraped" /\ pc'["loop"] = "idle"
      => /\ \A id \in skipped :
              /\ id \in knownIds(file') <=> id \in knownIds(file)
              /\ id \in knownIds(file) => sameButMissing(file'.markets[id], file.markets[id])
              /\ \A k \in AllKinds : ~hasSend(outbox', id, k)
         /\ \A id \in DOMAIN results["loop"].snaps :
              results["loop"].snaps[id].status # "resolved"
                => /\ id \in knownIds(file')
                   /\ file'.markets[id].lastStatus = results["loop"].snaps[id].status ]_vars

\* a tick that skipped a known market, not retired, and announced the
\* closure of another one
C31_Witness ==
  \E id \in knownIds(file) : \E other \in knownIds(file) :
    /\ prevTick[id] = "none"
    /\ ~file.markets[id].retired
    /\ file.markets[id].lastStatus = "open"
    /\ prevTick[other] # "none"
    /\ hasSend(outbox, other, "closed")

\* Object.keys(state.markets).length when the tick reaches its cleanup: the
\* records loaded, those the transitions loop created, and the further
\* markets of the site
recordCount ==
  Cardinality(knownIds(st["loop"]) \cup DOMAIN results["loop"].snaps)
    + (IF results["loop"].others > 0 THEN results["loop"].others ELSE st["loop"].untracked)

\* the record of id is retired when the tick reaches its cleanup
retiredAtCleanup(id) ==
  \/ isRetired(st["loop"], id)
  \/ id \in DOMAIN results["loop"].snaps /\ results["loop"].snaps[id].status = "resolved"

\* C32: active records are never deleted: a tick deletes no record that is
\* not retired; it deletes records only when the record count exceeds
\* MAX_RETIRED (and never while seeding), then deletes every retired record,
\* and a record it keeps is the record the transitions left.
C32_ActiveNeverDeleted ==
  [][ pc["loop"] = "scraped" /\ pc'["loop"] = "idle"
      => LET all == knownIds(st["loop"]) \cup DOMAIN results["loop"].snaps
         IN /\ knownIds(file') \subseteq all
            /\ \A id \in all \ knownIds(file') :
                 retiredAtCleanup(id) /\ reconciling /\ recordCount > MAX_RETIRED
            /\ reconciling /\ recordCount > MAX_RETIRED
                 => \A id \in knownIds(file') : ~file'.markets[id].retired
            /\ reconciling
                 => \A id \in knownIds(file') :
                      file'.markets[id]
                        = reconciledMarkets(st["loop"], lists["loop"], results["loop"])[id] ]_vars

\* compaction has deleted the record of a market whose resolution was
\* announced, in a ledger of more than MAX_RETIRED records
C32_Witness ==
  \E id \in site.ids :
    /\ sent[id]["resolved"] >= 1
    /\ id \notin knownIds(file)
    /\ file.seeded
    /\ file.untracked + Cardinality(knownIds(file)) >= MAX_RETIRED

\* C33: retired records are immutable: no step changes a field of a record
\* that is retired, for as long as the record stays in the ledger.
C33_RetiredImmutable ==
  [][ \A id \in knownIds(file) \cap knownIds(file') :
        file.markets[id].retired => file'.markets[id] = file.markets[id] ]_vars

\* C34: poll interval clamp: the interval with which loopTick rearms is a
\* number of seconds and at least 5, for every value of
\* POLL_INTERVAL_SECONDS.
C34_IntervalClamp ==
  ret # Null => ret[1] # NaN /\ ret[1][1] >= 5

\* the tick of the loop, or the tick it is about to start, loaded seeded = false
unseededTick ==
  IF pc["loop"] = "idle" THEN ~file.seeded ELSE ~st["loop"].seeded

\* C35: no notification before seeding: no step of a tick that started with
\* seeded = false calls send, whether the tick obtained snapshots or none.
C35_SilentBeforeSeeding ==
  [][ unseededTick => outbox' = {} /\ sent' = sent ]_vars

\* a tick that loaded seeded = false, watched a listed market and obtained
\* no snapshot: it goes through the transitions with nothing to announce
C35_Witness ==
  /\ reconciling
  /\ ~st["loop"].seeded
  /\ results["loop"].fetched # {}
  /\ DOMAIN results["loop"].snaps = {}
  /\ results["loop"].others = 0

\* C36: an observed closed or resolved status is never left unannounced:
\* after a tick that does not seed, the stored record of every market whose
\* snapshot was closed (resolved) has announcedClosed (announcedResolved)
\* true and the status of the snapshot as lastStatus.
C36_ObservedIsAnnounced ==
  [][ reconciling
      => \A id \in DOMAIN results["loop"].snaps :
           results["loop"].snaps[id].status \in {"closed", "resolved"}
             => /\ id \in knownIds(file')
                /\ flagOf(file'.markets[id], results["loop"].snaps[id].status)
                /\ file'.markets[id].lastStatus = results["loop"].snaps[id].status ]_vars

\* the step is the end of a tick that the catch of line 899 ended: the tick
\* leaves its scrapes, or leaves its transitions without the completed tick
\* being recorded although it had results
aborted ==
  /\ pc'["loop"] = "idle"
  /\ \/ pc["loop"] = "listed"
     \/ /\ pc["loop"] = "scraped"
        /\ DOMAIN results["loop"].snaps # {}
        /\ \A id \in site.ids : prevTick'[id] = "none"

\* C37: an aborted tick leaves the persisted ledger untouched: the state
\* file after a tick that ended in the catch is the state file the tick
\* loaded, also when the tick had sent notifications.
C37_AbortKeepsFile ==
  [][ aborted => file' = file /\ file' = st["loop"] ]_vars

\* a tick has sent RESOLVED for a market and ended in the catch: the stored
\* record still has announcedResolved = false
C37_Witness ==
  \E id \in knownIds(file) :
    /\ hasSend(outbox, id, "resolved")
    /\ ~file.markets[id].announcedResolved
    /\ pc["loop"] = "idle"

\* C38: in every state file that seeding and ticks produce, a record whose
\* lastStatus is closed has announcedClosed = true.
C38_ClosedIsFlagged ==
  \A id \in knownIds(file) :
    file.markets[id].lastStatus = "closed" => file.markets[id].announcedClosed

\* a market announced as closed by a tick and seen closed again by a later
\* tick, which sent nothing for it
C38_Witness ==
  \E id \in knownIds(file) :
    /\ file.markets[id].lastStatus = "closed"
    /\ file.markets[id].announcedClosed
    /\ sent[id]["closed"] = 1
    /\ prevTick[id] # "none"
    /\ ~hasSend(outbox, id, "closed")

\* C39: in every state file that seeding and ticks produce, a record has a
\* closedSnapshot exactly when its announcedClosed is true.
C39_SnapshotIffFlagged ==
  \A id \in knownIds(file) :
    file.markets[id].closedSnapshot # Null <=> file.markets[id].announcedClosed

\* a market announced as closed and then resolved: its record keeps the
\* snapshot and the flag
C39_Witness ==
  \E id \in knownIds(file) :
    /\ file.markets[id].closedSnapshot # Null
    /\ file.markets[id].announcedClosed
    /\ file.markets[id].lastStatus = "resolved"
    /\ sent[id]["closed"] = 1

====
